---- MODULE Spec2Model ----
(***************************************************************************)
(* Model of GitClient.CheckoutTag (sciuromorpha): remote lookup, fetch,    *)
(* tag resolution by object-database scan, tree checkout and head update,  *)
(* then the sparse prune of the working directory.                         *)
(*                                                                         *)
(* Strings that the code inspects character by character (file names, tag  *)
(* names, the sparse-checkout file) are sequences of one-character         *)
(* strings; error values are plain strings.                                *)
(***************************************************************************)
EXTENDS Integers, Sequences, FiniteSets, TLC

\* ------------------------------------------------------------------ bounds
\* longest object database enumerated by GetTag
MaxOdb == 2
\* longest sparse-checkout file content, in characters
MaxSparseLen == 3
\* sparseEntries.contains called on its own: longest allowlist, longest string
MaxEntries == 2
MaxNameLen == 2
MaxPathLen == 3

\* --------------------------------------------------------------- constants
Nil == "nil"
PathSeparator == "/"
NL == "\n"
ErrNotFound == "ERRNF"
ErrTagNotFound == "Unabled to find specified tag"
DotGit == <<".", "g", "i", "t">>
InfoName == <<"i", "n", "f", "o">>
SparseName ==
    <<"s", "p", "a", "r", "s", "e", "-", "c", "h", "e", "c", "k", "o", "u", "t">>
RefsTags == "refs/tags/"

\* errors of the collaborators (libgit2, the filesystem)
ErrRemote == "remote 'origin' does not exist"
FetchErrors == {"fetch: network unreachable", "fetch: authentication failed"}
ErrOdb == "odb: cannot open"
ErrLookup == "odb: object corrupt"
ErrPeel == "tag target is not a commit"
ErrTree == "commit tree missing"
ErrCheckout == "checkout: cannot write"
ErrSetHead == "sethead: cannot lock HEAD"
ErrNotDir == "not a directory"
ErrIsDir == "is a directory"
ErrRemove == "remove: permission denied"
ErrOpen == "could not find repository"
\* git.ErrOk
ErrOk == 0
IdRsaPub == <<"i", "d", "_", "r", "s", "a", ".", "p", "u", "b">>
IdRsa == <<"i", "d", "_", "r", "s", "a">>
GitUser == "git"

\* ------------------------------------------------------------ input spaces
SeqsUpTo(S, n) == UNION {[1..k -> S] : k \in 0..n}

\* tag names: "v" is a prefix of "v1", "1" a suffix of it
TagNames == {<<"v", "1">>, <<"v">>, <<"1">>}
Queries == {<<"v", "1">>, <<"1">>}
TagObj(n) == [kind |-> "tag", name |-> n]
BlobObj == [kind |-> "blob", name |-> <<>>]
\* an object whose Lookup fails
BadObj == [kind |-> "bad", name |-> <<>>]
Objects == {TagObj(n) : n \in TagNames} \cup {BlobObj, BadObj}
\* top-level names of the working directory besides .git
VisibleNames == {<<"a">>, <<"a", "a">>, <<"b">>}
HiddenNames == {<<".", "h">>}
TopNames == VisibleNames \cup HiddenNames \cup {DotGit}
Kinds == {"file", "dir"}
SparseAlphabet == {"a", PathSeparator, NL}
\* credentials directories: unset, relative, absolute, with doubled and
\* trailing separators
SshPaths == SeqsUpTo({"s", PathSeparator}, MaxPathLen)
DiskStates == {"no directory", "no key files", "key files"}
CallbackArgs ==
    [cert : {"cert A", "cert B"}, valid : BOOLEAN, host : {"host A", "host B"},
     url : {"ssh://origin", "https://origin"}, username : {"", "u"},
     allowed : SUBSET {"ssh key", "userpass"}]

\* ------------------------------------------------------------ pure helpers
\* sparseEntries.contains: the loop over the allowlist
containsExact(se, i) == \E k \in 1..Len(se) : se[k] = i
containsPrefix(se, i) ==
    \E k \in 1..Len(se) :
        Len(se[k]) <= Len(i) /\ SubSeq(i, 1, Len(se[k])) = se[k]
RECURSIVE contains(_, _)
contains(se, i) ==
    IF se = <<>> THEN FALSE
    ELSE IF Head(se) = i \/ Head(se) = i \o <<PathSeparator>> THEN TRUE
    ELSE contains(Tail(se), i)

\* isHidden: i[0] == '.'
isHidden(i) == i[1] = "."

\* strings.Split(s, "\n"): the pieces between newlines, empty pieces kept
RECURSIVE SplitAcc(_, _)
SplitAcc(s, cur) ==
    IF s = <<>> THEN <<cur>>
    ELSE IF Head(s) = NL THEN <<cur>> \o SplitAcc(Tail(s), <<>>)
    ELSE SplitAcc(Tail(s), Append(cur, Head(s)))
Split(s) == SplitAcc(s, <<>>)

\* byte order of the characters of file names (ioutil.ReadDir sorts by name)
CharOrd == [c \in {".", "a", "b", "g", "h", "i", "t"} |->
              CASE c = "." -> 46 [] c = "a" -> 97 [] c = "b" -> 98 [] c = "g" -> 103
                [] c = "h" -> 104 [] c = "i" -> 105 [] c = "t" -> 116]
RECURSIVE NameLess(_, _)
NameLess(x, y) ==
    IF x = <<>> THEN y # <<>>
    ELSE IF y = <<>> THEN FALSE
    ELSE IF Head(x) = Head(y) THEN NameLess(Tail(x), Tail(y))
    ELSE CharOrd[Head(x)] < CharOrd[Head(y)]
\* every name a directory can hold, in name order: the k-th is the one with
\* k - 1 names before it
NameOrder ==
    [k \in 1..Cardinality(TopNames) |->
        CHOOSE x \in TopNames : Cardinality({y \in TopNames : NameLess(y, x)}) = k - 1]
\* the listing of the names S: the names of S, in name order
SortNames(S) == SelectSeq(NameOrder, LAMBDA x : x \in S)

\* getFileInfoByName: list the directory, then look for the name in the listing.
\* dirKind is what the path is on disk, names the sorted listing when it is a
\* directory; fi = <<>> is the nil FileInfo.
RECURSIVE FindName(_, _)
FindName(finfo, name) ==
    IF finfo = <<>> THEN [fi |-> <<>>, err |-> ErrNotFound]
    ELSE IF Head(finfo) = name THEN [fi |-> name, err |-> Nil]
    ELSE FindName(Tail(finfo), name)
getFileInfoByNameHidesErr(dirKind, names, name) ==
    IF dirKind # "dir" THEN [fi |-> <<>>, err |-> ErrNotFound]
    ELSE FindName(names, name)
getFileInfoByName(dirKind, names, name) ==
    IF dirKind # "dir" THEN [fi |-> <<>>, err |-> ErrNotDir]
    ELSE FindName(names, name)

\* path.Clean on paths without "." and ".." elements: runs of separators
\* become one, a trailing separator goes unless the path is the root, and the
\* empty path becomes "."
RECURSIVE CleanAcc(_, _)
CleanAcc(p, out) ==
    IF p = <<>> THEN out
    ELSE IF Head(p) = PathSeparator /\ out # <<>> /\ out[Len(out)] = PathSeparator
         THEN CleanAcc(Tail(p), out)
         ELSE CleanAcc(Tail(p), Append(out, Head(p)))
Clean(p) ==
    LET c == CleanAcc(p, <<>>) IN
    IF c = <<>> THEN <<".">>
    ELSE IF Len(c) > 1 /\ c[Len(c)] = PathSeparator THEN SubSeq(c, 1, Len(c) - 1)
    ELSE c
\* path.Join(a, b): empty elements are dropped, the rest joined with a
\* separator and cleaned
Join(a, b) ==
    IF a = <<>> /\ b = <<>> THEN <<>>
    ELSE IF a = <<>> THEN Clean(b)
    ELSE IF b = <<>> THEN Clean(a)
    ELSE Clean(a \o <<PathSeparator>> \o b)

\* git.NewCredSshKey: the credential is built from the strings as given, the
\* files are not opened
NewCredSshKey(username, publickey, privatekey, passphrase) ==
    [ret |-> 0,
     cred |-> [username |-> username, publickey |-> publickey,
               privatekey |-> privatekey, passphrase |-> passphrase]]

\* getFetchOpts, lines 121-123: the certificate check
CertificateCheckCallback(cert, valid, host) == ErrOk
\* getFetchOpts, lines 124-127: the credentials; cred is the pointer returned,
\* <<>> for nil
CredentialsCallbackByType(path, url, username, allowed) ==
    IF "ssh key" \in allowed
    THEN LET r == NewCredSshKey(GitUser, Join(path, IdRsaPub), Join(path, IdRsa), <<>>) IN
         [called |-> TRUE, code |-> r.ret, cred |-> <<r.cred>>]
    ELSE [called |-> TRUE, code |-> -1, cred |-> <<>>]
CredentialsCallback(path, url, username, allowed) ==
    LET r == NewCredSshKey(GitUser, Join(path, IdRsaPub), Join(path, IdRsa), <<>>) IN
    [called |-> TRUE, code |-> r.ret, cred |-> <<r.cred>>]

\* ------------------------------------------------------------------- state
VARIABLES
    pc,          \* the call CheckoutTag makes next, or "returned"
    err,         \* CheckoutTag's return value once pc = "returned"
    calls,       \* the steps invoked so far, in order
    results,     \* the error (or Nil) each finished step came back with
    tag,         \* the requested tag name
    odb,         \* the object database, in enumeration order
    scanPos,     \* GetTag: number of objects ForEach has handed to the callback
    t,           \* GetTag: index in odb of the tag held in t, 0 for nil
    forEachErr,  \* GetTag: the error the callback stopped the enumeration with
    wt,          \* working directory: top-level name -> [kind, ver]
    head,        \* the repository's HEAD reference
    infoKind,    \* what .git/info is on disk: "absent", "file" or "dir"
    sparseKind,  \* what .git/info/sparse-checkout is on disk
    sparseFlag,  \* CheckoutTag's local sparseFlag
    sparses,     \* CheckoutTag's local sparses (the allowlist)
    dirContents, \* CheckoutTag's local dirContents (the listing snapshot)
    idx,         \* number of dirContents entries the prune loop has handled
    wt0,         \* history: wt when CheckoutTag was called
    head0,       \* history: head when CheckoutTag was called
    wtPost,      \* history: wt when the prune phase started
    frees,       \* for each handle acquired so far, how often Free was called on it
    defers,      \* the calls CheckoutTag has deferred (lines 166, 175)
    innerDefers, \* the calls the running GetTag or CheckoutTree has deferred
    runs,        \* how many times the prune has been started on this directory
    wtFirst,     \* history: wt when the first prune was over
    mainPc,      \* where main is
    repository,  \* the repository handle of the GitClient: opened, times freed
    argSe,       \* sparseEntries.contains called on its own: the receiver se
    argI,        \* ... its argument i
    retContains, \* ... its result
    sshPath,     \* the GitClient's sshPath
    keysOnDisk,  \* what is on disk where sshPath points
    cbArgs,      \* the arguments libgit2 calls the fetch callbacks with
    certRet,     \* what CertificateCheckCallback returned
    credRet      \* what CredentialsCallback returned

vars == <<pc, err, calls, results, tag, odb, scanPos, t, forEachErr, wt, head,
          infoKind, sparseKind, sparseFlag, sparses, dirContents, idx,
          wt0, head0, wtPost, frees, defers, innerDefers,
          runs, wtFirst, mainPc, repository, argSe, argI, retContains,
          sshPath, keysOnDisk, cbArgs, certRet, credRet>>

scanVars == <<scanPos, t, forEachErr>>
containsVars == <<argSe, argI, retContains>>
callbackVars == <<sshPath, keysOnDisk, cbArgs, certRet, credRet>>
\* what no step of CheckoutTag writes
mainVars == <<mainPc, repository>>
repoVars == <<tag, odb, infoKind, sparseKind, wt0, head0, containsVars, callbackVars,
              runs, wtFirst, mainVars>>
pruneVars == <<sparseFlag, sparses, dirContents, idx>>
handleVars == <<frees, defers, innerDefers>>

\* the handles libgit2 hands out; k tells the scanned objects apart
Handle(what, k) == <<what, k>>
NoHandles == [h \in {} |-> 0]
\* a call that hands out a new handle h
Acquire(f, h) == f @@ (h :> 0)
\* the deferred Free calls d run when their function returns
RunDefers(f, d) ==
    [h \in DOMAIN f |-> f[h] + Cardinality({k \in DOMAIN d : d[k] = h})]
\* lines 166, 175: CheckoutTag's deferred calls run when it returns
ReturnDefers(f, d, pcNext) == IF pcNext = "returned" THEN RunDefers(f, d) ELSE f

\* the fetch callbacks have not been called
NoArgs == [cert |-> "", valid |-> FALSE, host |-> "", url |-> "", username |-> "",
           allowed |-> {}]
NotCalled == [called |-> FALSE, code |-> ErrOk, cred |-> <<>>]
NoCallbacks ==
    /\ sshPath = <<>>
    /\ keysOnDisk = "no directory"
    /\ cbArgs = NoArgs
    /\ certRet = NotCalled
    /\ credRet = NotCalled

Entry(k) == [kind |-> k, ver |-> "local"]
\* the working directories CheckoutTag may be called on
InitialTrees ==
    {w \in UNION {[S -> {Entry(k) : k \in Kinds}] : S \in SUBSET TopNames} :
        /\ \A n \in DOMAIN w \cap HiddenNames : w[n].kind = "file"
        /\ <<"a", "a">> \in DOMAIN w => w[<<"a", "a">>].kind = "file"
        /\ <<"b">> \in DOMAIN w => w[<<"b">>].kind = "file"}
\* the tree of the commit each tag points at
TreeOf(name) ==
    IF name = <<"v", "1">> THEN (<<"a">> :> "dir")
    ELSE (<<"a">> :> "file") @@ (<<"a", "a">> :> "file")
HeadInit == <<"refs/heads/", <<"m">>>>

\* the state CheckoutTag is called in
InitCheckoutTag ==
    /\ pc = "RemotesLookup"
    /\ err = Nil
    /\ calls = <<>>
    /\ results = <<>>
    /\ tag \in Queries
    /\ odb \in SeqsUpTo(Objects, MaxOdb)
    /\ scanPos = 0
    /\ t = 0
    /\ forEachErr = Nil
    /\ wt \in InitialTrees
    /\ head = HeadInit
    /\ infoKind \in {"absent", "file", "dir"}
    /\ sparseKind \in {"absent", "file", "dir"}
    /\ (DotGit \notin DOMAIN wt \/ wt[DotGit].kind # "dir") => infoKind = "absent"
    /\ infoKind # "dir" => sparseKind = "absent"
    /\ sparseFlag = FALSE
    /\ sparses = <<>>
    /\ dirContents = <<>>
    /\ idx = 0
    /\ wt0 = wt
    /\ head0 = head
    /\ wtPost = wt
    /\ frees = NoHandles
    /\ defers = <<>>
    /\ innerDefers = <<>>
    /\ runs = 1
    /\ wtFirst = wt
    /\ argSe = <<>>
    /\ argI = <<>>
    /\ retContains = FALSE
    /\ NoCallbacks

\* CheckoutTag called on a GitClient that OpenRepository returned
Init ==
    /\ InitCheckoutTag
    /\ mainPc = "CheckoutTag"
    /\ repository = [opened |-> TRUE, frees |-> 0]

\* ---------------------------------------------------- CheckoutTag: fetching
\* lines 162-165: what follows RemotesLookup coming back with e
AfterRemotesLookup(e) == IF e # Nil THEN "returned" ELSE "Fetch"

RemotesLookup ==
    /\ pc = "RemotesLookup"
    /\ mainPc = "CheckoutTag"
    /\ \E e \in {Nil, ErrRemote} :
        /\ calls' = Append(calls, "RemotesLookup")
        /\ results' = Append(results, e)
        /\ pc' = AfterRemotesLookup(e)
        /\ err' = e
        /\ defers' = IF e = Nil THEN Append(defers, Handle("remote", 0)) ELSE defers
        /\ frees' = IF e = Nil THEN Acquire(frees, Handle("remote", 0)) ELSE frees
    /\ UNCHANGED <<repoVars, scanVars, pruneVars, wt, head, wtPost, innerDefers>>

\* lines 168-171: what follows Fetch coming back with e
AfterFetchIgnoreErr(e) == "GetTag"
AfterFetch(e) == IF e # Nil THEN "returned" ELSE "GetTag"

Fetch ==
    /\ pc = "Fetch"
    /\ \E e \in {Nil} \cup FetchErrors :
        /\ calls' = Append(calls, "Fetch")
        /\ results' = Append(results, e)
        /\ pc' = AfterFetch(e)
        /\ err' = e
    /\ frees' = ReturnDefers(frees, defers, pc')
    /\ UNCHANGED <<repoVars, scanVars, pruneVars, wt, head, wtPost, defers, innerDefers>>

\* -------------------------------------------------- gitterImpl.GetTag (50-72)
\* line 65: tObj.Name() == tag
TagNameMatchesPrefix(name, q) ==
    Len(name) <= Len(q) /\ SubSeq(q, 1, Len(name)) = name
TagNameMatches(name, q) == name = q

\* lines 58-70: the ForEach callback on the object at position pos, with tcur
\* the tag held so far; err # Nil stops the enumeration
ForEachCallback(obj, q, tcur, pos) ==
    IF obj.kind = "bad" THEN [t |-> tcur, err |-> ErrLookup]
    ELSE IF obj.kind = "tag" /\ TagNameMatches(obj.name, q)
         THEN [t |-> pos, err |-> Nil]
         ELSE [t |-> tcur, err |-> Nil]

\* line 71: the err GetTag returns is the one Odb() gave (line 51); the
\* callback's err is a different variable and ForEach's result is dropped
GetTagErrFromEnum(odbErr, enumErr) == IF odbErr # Nil THEN odbErr ELSE enumErr
GetTagErr(odbErr, enumErr) == odbErr

\* lines 174-178: what CheckoutTag does with GetTag's (t, e)
AfterGetTagNoNilCheck(tt, e) == [pc |-> "AsCommit", ret |-> Nil]
AfterGetTag(tt, e) ==
    IF tt # 0 /\ e = Nil THEN [pc |-> "AsCommit", ret |-> Nil]
    ELSE [pc |-> "returned", ret |-> ErrTagNotFound]

\* lines 59, 63: the handles the callback is handed for the object at pos:
\* Lookup gives the object unless it fails, AsTag a tag if the object is one
ForEachAcquires(obj, pos) ==
    IF obj.kind = "bad" THEN {}
    ELSE IF obj.kind = "tag" THEN {Handle("obj", pos), Handle("tag", pos)}
    ELSE {Handle("obj", pos)}

\* lines 51-54: Odb()
GetTagOdb ==
    /\ pc = "GetTag"
    /\ calls' = Append(calls, "GetTag")
    /\ \E e \in {Nil, ErrOdb} :
        IF e # Nil
        THEN LET a == AfterGetTag(0, e) IN
             /\ pc' = a.pc
             /\ err' = a.ret
             /\ results' = Append(results, a.ret)
             /\ frees' = ReturnDefers(frees, defers, a.pc)
             /\ UNCHANGED innerDefers
        ELSE /\ pc' = "ForEach"
             /\ frees' = Acquire(frees, Handle("odb", 0))
             /\ innerDefers' = <<Handle("odb", 0)>>
             /\ UNCHANGED <<err, results>>
    /\ UNCHANGED <<repoVars, scanVars, pruneVars, wt, head, wtPost, defers>>

\* lines 58-70: ForEach hands the next object to the callback
ForEach ==
    /\ pc = "ForEach"
    /\ forEachErr = Nil
    /\ scanPos < Len(odb)
    /\ LET r == ForEachCallback(odb[scanPos + 1], tag, t, scanPos + 1) IN
        /\ scanPos' = scanPos + 1
        /\ t' = r.t
        /\ forEachErr' = r.err
    /\ frees' = frees @@ [h \in ForEachAcquires(odb[scanPos + 1], scanPos + 1) |-> 0]
    /\ UNCHANGED <<pc, err, calls, results, repoVars, pruneVars, wt, head, wtPost,
                   defers, innerDefers>>

\* line 71 and lines 173-178: the enumeration is over, GetTag returns
GetTagReturn ==
    /\ pc = "ForEach"
    /\ (forEachErr # Nil \/ scanPos = Len(odb))
    /\ LET a == AfterGetTag(t, GetTagErr(Nil, forEachErr)) IN
        /\ pc' = a.pc
        /\ err' = a.ret
        /\ results' = Append(results, a.ret)
        /\ defers' = IF a.pc = "returned" THEN defers
                      ELSE Append(defers, Handle("tag", t))
        /\ frees' = ReturnDefers(RunDefers(frees, innerDefers), defers, a.pc)
    /\ innerDefers' = <<>>
    /\ UNCHANGED <<calls, repoVars, scanVars, pruneVars, wt, head, wtPost>>

\* -------------------------------------------- gitterImpl.CheckoutTree (74-97)
\* the working directory after the entries S of tree have been written
MaterializeOnly(w, tree, S) == [n \in S |-> [kind |-> tree[n], ver |-> "tag"]]
Materialize(w, tree, S) ==
    [n \in DOMAIN w \cup S |->
        IF n \in S THEN [kind |-> tree[n], ver |-> "tag"] ELSE w[n]]

\* lines 181-183: what follows CheckoutTree coming back with e
AfterCheckoutTreeIgnoreErr(e) == "FindGit"
AfterCheckoutTree(e) == IF e # Nil THEN "returned" ELSE "FindGit"

\* lines 75-78: t.Target().AsCommit()
AsCommit ==
    /\ pc = "AsCommit"
    /\ calls' = Append(calls, "CheckoutTree")
    /\ \E e \in {Nil, ErrPeel} :
        IF e # Nil
        THEN /\ pc' = AfterCheckoutTree(e)
             /\ err' = e
             /\ results' = Append(results, e)
             /\ frees' = ReturnDefers(Acquire(frees, Handle("target", 0)), defers,
                                      AfterCheckoutTree(e))
             /\ UNCHANGED innerDefers
        ELSE /\ pc' = "Tree"
             /\ frees' = Acquire(Acquire(frees, Handle("target", 0)), Handle("commit", 0))
             /\ innerDefers' = <<Handle("commit", 0)>>
             /\ UNCHANGED <<err, results>>
    /\ UNCHANGED <<repoVars, scanVars, pruneVars, wt, head, wtPost, defers>>

\* lines 81-84: tagCommit.Tree()
Tree ==
    /\ pc = "Tree"
    /\ \E e \in {Nil, ErrTree} :
        IF e # Nil
        THEN /\ pc' = AfterCheckoutTree(e)
             /\ err' = e
             /\ results' = Append(results, e)
             /\ frees' = ReturnDefers(RunDefers(frees, innerDefers), defers,
                                      AfterCheckoutTree(e))
             /\ innerDefers' = <<>>
        ELSE /\ pc' = "RepoCheckoutTree"
             /\ frees' = Acquire(frees, Handle("tree", 0))
             /\ innerDefers' = Append(innerDefers, Handle("tree", 0))
             /\ UNCHANGED <<err, results>>
    /\ UNCHANGED <<calls, repoVars, scanVars, pruneVars, wt, head, wtPost, defers>>

\* lines 87-90: g.r.CheckoutTree(tree, checkoutOpts); a failed checkout may have
\* written any part of the tree
RepoCheckoutTree ==
    /\ pc = "RepoCheckoutTree"
    /\ LET tree == TreeOf(odb[t].name) IN
       \E e \in {Nil, ErrCheckout} :
        IF e # Nil
        THEN /\ \E S \in SUBSET DOMAIN tree :
                 /\ S # DOMAIN tree
                 /\ wt' = Materialize(wt, tree, S)
             /\ pc' = AfterCheckoutTree(e)
             /\ err' = e
             /\ results' = Append(results, e)
             /\ frees' = ReturnDefers(RunDefers(frees, innerDefers), defers,
                                      AfterCheckoutTree(e))
             /\ innerDefers' = <<>>
        ELSE /\ wt' = Materialize(wt, tree, DOMAIN tree)
             /\ pc' = "SetHead"
             /\ UNCHANGED <<err, results, frees, innerDefers>>
    /\ UNCHANGED <<calls, repoVars, scanVars, pruneVars, head, wtPost, defers>>

\* line 92: HEAD after SetHead("refs/tags/" + tag) came back with e
NewHeadEvenOnError(e, old, q) == <<RefsTags, q>>
NewHead(e, old, q) == IF e = Nil THEN <<RefsTags, q>> ELSE old

\* lines 92-96: g.r.SetHead("refs/tags/" + tag); on success CheckoutTree
\* returns nil and the prune phase starts on the working directory as it is
SetHead ==
    /\ pc = "SetHead"
    /\ \E e \in {Nil, ErrSetHead} :
        /\ pc' = AfterCheckoutTree(e)
        /\ err' = e
        /\ results' = Append(results, e)
        /\ head' = NewHead(e, head, tag)
        /\ frees' = ReturnDefers(RunDefers(frees, innerDefers), defers,
                                 AfterCheckoutTree(e))
    /\ innerDefers' = <<>>
    /\ wtPost' = wt
    /\ UNCHANGED <<calls, repoVars, scanVars, pruneVars, wt, defers>>

\* ------------------------------------------- CheckoutTag: the prune (185-234)
\* the sorted listings ioutil.ReadDir gives for the three directories
RootListing == SortNames(DOMAIN wt)
GitListing ==
    <<<<"H", "E", "A", "D">>>> \o (IF infoKind # "absent" THEN <<InfoName>> ELSE <<>>)
InfoListing ==
    <<<<"e", "x", "c", "l", "u", "d", "e">>>>
        \o (IF sparseKind # "absent" THEN <<SparseName>> ELSE <<>>)

\* lines 186-189: what follows the lookup of ".git" coming back with e
AfterFindGitTolerant(e) ==
    IF e = Nil THEN [pc |-> "FindInfo", ret |-> Nil]
    ELSE IF e # ErrNotFound THEN [pc |-> "returned", ret |-> e]
    ELSE [pc |-> "returned", ret |-> Nil]
AfterFindGit(e) ==
    IF e # Nil THEN [pc |-> "returned", ret |-> e]
    ELSE [pc |-> "FindInfo", ret |-> Nil]

\* lines 193-199 (and 201, 234): a missing "info" clears sparseFlag and
\* CheckoutTag returns nil; any other error is returned
AfterFindInfoStrict(e) ==
    IF e # Nil THEN [pc |-> "returned", ret |-> e]
    ELSE [pc |-> "FindSparse", ret |-> Nil]
AfterFindInfo(e) ==
    IF e = Nil THEN [pc |-> "FindSparse", ret |-> Nil]
    ELSE IF e # ErrNotFound THEN [pc |-> "returned", ret |-> e]
    ELSE [pc |-> "returned", ret |-> Nil]

\* lines 205-212 (and 234): the same for "sparse-checkout"; fi is the FileInfo
AfterFindSparse(fi, e) ==
    IF e # Nil /\ e # ErrNotFound THEN [pc |-> "returned", ret |-> e]
    ELSE IF fi # <<>> THEN [pc |-> "ReadFile", ret |-> Nil]
    ELSE [pc |-> "returned", ret |-> Nil]

\* line 225: the entries the loop removes
ShouldRemoveNoHiddenCheck(se, name) == ~contains(se, name)
ShouldRemove(se, name) == ~contains(se, name) /\ ~isHidden(name)

\* line 224: the range loop goes on to the next entry of the snapshot,
\* whether or not it removed this one
NextIdxShifted(ix, removed) == IF removed THEN ix + 2 ELSE ix + 1
NextIdxKeptAgain(ix, removed) == IF removed THEN ix + 1 ELSE ix
NextIdx(ix, removed) == ix + 1

\* lines 226-229: what follows RemoveAll coming back with e
AfterRemoveAllIgnoreErr(e) == "Prune"
AfterRemoveAll(e) == IF e # Nil THEN "returned" ELSE "Prune"

\* lines 185-191
FindGit ==
    /\ pc = "FindGit"
    /\ calls' = Append(calls, "Prune")
    /\ LET r == getFileInfoByName("dir", RootListing, DotGit)
           a == AfterFindGit(r.err) IN
        /\ pc' = a.pc
        /\ err' = a.ret
        /\ results' = IF a.pc = "returned" THEN Append(results, a.ret) ELSE results
        /\ sparseFlag' = (r.err = Nil)
    /\ frees' = ReturnDefers(frees, defers, pc')
    /\ UNCHANGED <<repoVars, scanVars, sparses, dirContents, idx, wt, head, wtPost, defers, innerDefers>>

\* lines 192-199
FindInfo ==
    /\ pc = "FindInfo"
    /\ LET r == getFileInfoByName(wt[DotGit].kind, GitListing, InfoName)
           a == AfterFindInfo(r.err) IN
        /\ pc' = a.pc
        /\ err' = a.ret
        /\ results' = IF a.pc = "returned" THEN Append(results, a.ret) ELSE results
        /\ sparseFlag' = (r.err = Nil)
    /\ frees' = ReturnDefers(frees, defers, pc')
    /\ UNCHANGED <<calls, repoVars, scanVars, sparses, dirContents, idx, wt, head, wtPost, defers, innerDefers>>

\* lines 201-212
FindSparse ==
    /\ pc = "FindSparse"
    /\ LET r == getFileInfoByName(infoKind, InfoListing, SparseName)
           a == AfterFindSparse(r.fi, r.err) IN
        /\ pc' = a.pc
        /\ err' = a.ret
        /\ results' = IF a.pc = "returned" THEN Append(results, a.ret) ELSE results
        /\ sparseFlag' = (r.err = Nil)
    /\ frees' = ReturnDefers(frees, defers, pc')
    /\ UNCHANGED <<calls, repoVars, scanVars, sparses, dirContents, idx, wt, head, wtPost, defers, innerDefers>>

\* lines 213-218: read the file and split it into the allowlist
ReadFile ==
    /\ pc = "ReadFile"
    /\ IF sparseKind # "file"
       THEN /\ pc' = "returned"
            /\ err' = ErrIsDir
            /\ results' = Append(results, ErrIsDir)
            /\ UNCHANGED sparses
       ELSE /\ \E sparseData \in SeqsUpTo(SparseAlphabet, MaxSparseLen) :
                sparses' = Split(sparseData)
            /\ pc' = "ReadDir"
            /\ UNCHANGED <<err, results>>
    /\ frees' = ReturnDefers(frees, defers, pc')
    /\ UNCHANGED <<calls, repoVars, scanVars, sparseFlag, dirContents, idx, wt, head, wtPost, defers, innerDefers>>

\* lines 219-222: the snapshot of the working directory the loop runs over;
\* the directory was listed at line 186, so the listing succeeds
ReadDir ==
    /\ pc = "ReadDir"
    /\ dirContents' = RootListing
    /\ idx' = 0
    /\ pc' = "Prune"
    /\ UNCHANGED <<err, calls, results, repoVars, scanVars, sparseFlag, sparses, wt, head,
                   wtPost, handleVars>>

\* lines 224-231: one iteration of the loop; a failed RemoveAll of a directory
\* may have removed part of what is below it
PruneEntry ==
    /\ pc = "Prune"
    /\ idx < Len(dirContents)
    /\ LET v == dirContents[idx + 1] IN
       IF ShouldRemove(sparses, v)
       THEN \E e \in {Nil, ErrRemove} :
            /\ IF e # Nil
               THEN \/ wt' = wt
                    \/ /\ wt[v].kind = "dir"
                       /\ wt' = [wt EXCEPT ![v].ver = "partly removed"]
               ELSE wt' = [n \in DOMAIN wt \ {v} |-> wt[n]]
            /\ pc' = AfterRemoveAll(e)
            /\ IF AfterRemoveAll(e) = "returned"
               THEN /\ err' = e
                    /\ results' = Append(results, e)
                    /\ UNCHANGED idx
               ELSE /\ idx' = NextIdx(idx, TRUE)
                    /\ UNCHANGED <<err, results>>
       ELSE /\ idx' = NextIdx(idx, FALSE)
            /\ UNCHANGED <<pc, err, results, wt>>
    /\ frees' = ReturnDefers(frees, defers, pc')
    /\ UNCHANGED <<calls, repoVars, scanVars, sparseFlag, sparses, dirContents, head, wtPost, defers, innerDefers>>

\* line 234: the loop is over
PruneDone ==
    /\ pc = "Prune"
    /\ idx = Len(dirContents)
    /\ pc' = "returned"
    /\ err' = Nil
    /\ results' = Append(results, Nil)
    /\ frees' = ReturnDefers(frees, defers, pc')
    /\ UNCHANGED <<calls, repoVars, scanVars, pruneVars, wt, head, wtPost, defers, innerDefers>>

\* the loop of lines 224-231 has run to its end
PruneRan == sparseFlag /\ sparseKind = "file" /\ idx = Len(dirContents)

Next ==
    \/ RemotesLookup
    \/ Fetch
    \/ GetTagOdb
    \/ ForEach
    \/ GetTagReturn
    \/ AsCommit
    \/ Tree
    \/ RepoCheckoutTree
    \/ SetHead
    \/ FindGit
    \/ FindInfo
    \/ FindSparse
    \/ ReadFile
    \/ ReadDir
    \/ PruneEntry
    \/ PruneDone

Spec == Init /\ [][Next]_vars

\* ------------------------------------------------------------- main (14-28)
\* GitClient.Free, lines 114-116 (and 42-44): the repository handle is freed
GitClientFreeNoop(r) == r
GitClientFree(r) == [r EXCEPT !.frees = @ + 1]

\* main lines 19-22: what follows OpenRepository coming back with e
MainAfterOpenRepository(e) == IF e # Nil THEN "panicked" ELSE "CheckoutTag"
\* main lines 25-28: what follows CheckoutTag coming back with e
MainAfterCheckoutTagIgnoreErr(e) == "exited"
MainAfterCheckoutTag(e) == IF e # Nil THEN "panicked" ELSE "exited"

InitMain ==
    /\ InitCheckoutTag
    /\ mainPc = "OpenRepository"
    /\ repository = [opened |-> FALSE, frees |-> 0]

\* main line 18 and OpenRepository, lines 100-111
MainOpenRepository ==
    /\ mainPc = "OpenRepository"
    /\ \E e \in {Nil, ErrOpen} :
        /\ mainPc' = MainAfterOpenRepository(e)
        /\ repository' = IF e = Nil THEN [opened |-> TRUE, frees |-> 0] ELSE repository
    /\ UNCHANGED <<pc, err, calls, results, tag, odb, scanVars, wt, head, infoKind,
                   sparseKind, pruneVars, wt0, head0, wtPost, handleVars, runs,
                   wtFirst, containsVars, callbackVars>>

\* main lines 24-28: CheckoutTag is back; main panics or returns, and the
\* deferred repo.Free() of line 22 runs either way
MainReturn ==
    /\ mainPc = "CheckoutTag"
    /\ pc = "returned"
    /\ mainPc' = MainAfterCheckoutTag(err)
    /\ repository' = GitClientFree(repository)
    /\ UNCHANGED <<pc, err, calls, results, tag, odb, scanVars, wt, head, infoKind,
                   sparseKind, pruneVars, wt0, head0, wtPost, handleVars, runs,
                   wtFirst, containsVars, callbackVars>>

NextMain == MainOpenRepository \/ Next \/ MainReturn

SpecMain == InitMain /\ [][NextMain]_vars

\* ------------------------------------------------- the prune, run once more
\* lines 219-231 run again, with the allowlist of the first run, on the
\* directory the first run left
PruneAgain ==
    /\ pc = "returned" /\ err = Nil
    /\ PruneRan
    /\ runs = 1
    /\ runs' = 2
    /\ wtFirst' = wt
    /\ pc' = "ReadDir"
    /\ defers' = <<>>
    /\ UNCHANGED <<err, calls, results, tag, odb, scanVars, wt, head, infoKind,
                   sparseKind, pruneVars, wt0, head0, wtPost, frees, innerDefers,
                   mainVars, containsVars, callbackVars>>

NextPruneTwice == Next \/ PruneAgain

SpecPruneTwice == Init /\ [][NextPruneTwice]_vars

\* --------------------------------------- sparseEntries.contains on its own
\* the allowlist entries and the strings contains is called with
EntryStrings == SeqsUpTo({"a", PathSeparator}, MaxNameLen)
ArgStrings == SeqsUpTo({"a", PathSeparator, "."}, MaxNameLen)

InitContains ==
    /\ pc = "contains"
    /\ argSe \in SeqsUpTo(EntryStrings, MaxEntries)
    /\ argI \in ArgStrings
    /\ retContains = FALSE
    /\ err = Nil
    /\ calls = <<>>
    /\ results = <<>>
    /\ tag = <<"1">>
    /\ odb = <<>>
    /\ scanPos = 0
    /\ t = 0
    /\ forEachErr = Nil
    /\ wt = <<>>
    /\ head = HeadInit
    /\ infoKind = "absent"
    /\ sparseKind = "absent"
    /\ sparseFlag = FALSE
    /\ sparses = <<>>
    /\ dirContents = <<>>
    /\ idx = 0
    /\ wt0 = wt
    /\ head0 = head
    /\ wtPost = wt
    /\ frees = NoHandles
    /\ defers = <<>>
    /\ innerDefers = <<>>
    /\ runs = 1
    /\ wtFirst = wt
    /\ mainPc = "contains"
    /\ repository = [opened |-> FALSE, frees |-> 0]
    /\ NoCallbacks

\* se.contains(i), lines 147-154
CallContains ==
    /\ pc = "contains"
    /\ retContains' = contains(argSe, argI)
    /\ pc' = "contains returned"
    /\ UNCHANGED <<err, calls, results, tag, odb, scanVars, wt, head, infoKind,
                   sparseKind, pruneVars, wt0, head0, wtPost, handleVars, runs,
                   wtFirst, mainVars, argSe, argI, callbackVars>>

NextContains == CallContains

SpecContains == InitContains /\ [][NextContains]_vars

\* ------------------------------- the callbacks of getFetchOpts on their own
\* a fetch is under way on a GitClient with some sshPath; libgit2 asks for the
\* certificate check, then for the credentials
InitCallbacks ==
    /\ pc = "CertificateCheckCallback"
    /\ sshPath \in SshPaths
    /\ keysOnDisk \in DiskStates
    /\ cbArgs \in CallbackArgs
    /\ certRet = NotCalled
    /\ credRet = NotCalled
    /\ argSe = <<>>
    /\ argI = <<>>
    /\ retContains = FALSE
    /\ err = Nil
    /\ calls = <<>>
    /\ results = <<>>
    /\ tag = <<"1">>
    /\ odb = <<>>
    /\ scanPos = 0
    /\ t = 0
    /\ forEachErr = Nil
    /\ wt = <<>>
    /\ head = HeadInit
    /\ infoKind = "absent"
    /\ sparseKind = "absent"
    /\ sparseFlag = FALSE
    /\ sparses = <<>>
    /\ dirContents = <<>>
    /\ idx = 0
    /\ wt0 = wt
    /\ head0 = head
    /\ wtPost = wt
    /\ frees = NoHandles
    /\ defers = <<>>
    /\ innerDefers = <<>>
    /\ runs = 1
    /\ wtFirst = wt
    /\ mainPc = "callbacks"
    /\ repository = [opened |-> TRUE, frees |-> 0]

\* lines 121-123
CallCertificateCheck ==
    /\ pc = "CertificateCheckCallback"
    /\ certRet' = [called |-> TRUE,
                   code |-> CertificateCheckCallback(cbArgs.cert, cbArgs.valid, cbArgs.host),
                   cred |-> <<>>]
    /\ pc' = "CredentialsCallback"
    /\ UNCHANGED <<err, calls, results, tag, odb, scanVars, wt, head, infoKind,
                   sparseKind, pruneVars, wt0, head0, wtPost, handleVars, runs,
                   wtFirst, mainVars, containsVars, sshPath, keysOnDisk, cbArgs, credRet>>

\* lines 124-127
CallCredentials ==
    /\ pc = "CredentialsCallback"
    /\ credRet' = CredentialsCallback(sshPath, cbArgs.url, cbArgs.username, cbArgs.allowed)
    /\ pc' = "callbacks returned"
    /\ UNCHANGED <<err, calls, results, tag, odb, scanVars, wt, head, infoKind,
                   sparseKind, pruneVars, wt0, head0, wtPost, handleVars, runs,
                   wtFirst, mainVars, containsVars, sshPath, keysOnDisk, cbArgs, certRet>>

NextCallbacks == CallCertificateCheck \/ CallCredentials

SpecCallbacks == InitCallbacks /\ [][NextCallbacks]_vars

\* ================================================================== claims
\* the vocabulary of the claims, stated apart from the operators of the code
StepOrder == <<"RemotesLookup", "Fetch", "GetTag", "CheckoutTree", "Prune">>
Hidden(n) == n # <<>> /\ Head(n) = "."
\* n is covered by the allowlist L: an entry is n, or n and one separator
Covered(n, L) ==
    \E k \in 1..Len(L) : L[k] = n \/ L[k] = n \o <<PathSeparator>>
\* no tag object among the objects objs is named q
NoTagNamed(objs, q) ==
    \A k \in 1..Len(objs) : ~(objs[k].kind = "tag" /\ objs[k].name = q)
\* tag resolution is over: GetTag has been called and has returned
GetTagOver == Len(results) >= 3
PruneStarted == Len(calls) >= 5

\* C1: the steps are invoked in the order remote lookup, fetch, tag
\* resolution, checkout, prune, each at most once; a step is invoked only
\* when every earlier step has come back without error; as soon as a step
\* comes back with an error CheckoutTag has returned that failure, and no
\* step is taken once CheckoutTag has returned.
C1_StepsInOrder ==
    /\ Len(calls) <= Len(StepOrder)
    /\ calls = SubSeq(StepOrder, 1, Len(calls))
    /\ Len(results) \in {Len(calls) - 1, Len(calls)} \cap Nat
    /\ \A k \in 1..Len(calls) - 1 : results[k] = Nil
    /\ \A k \in 1..Len(results) :
          results[k] # Nil => pc = "returned" /\ err = results[k]
    /\ pc = "returned" => Len(results) = Len(calls) /\ err = results[Len(results)]
\* C1, in full: the order holds in every state, and a returned CheckoutTag
\* takes no further step.
C1_FixedOrder == [](C1_StepsInOrder) /\ [][pc # "returned"]_vars
\* a run that made every step and returned nil after pruning
C1_Witness ==
    /\ pc = "returned"
    /\ err = Nil
    /\ calls = StepOrder
    /\ DOMAIN wt # DOMAIN wtPost

\* C2: when CheckoutTag returns nil and a sparse-checkout file was there, the
\* top-level entries left are exactly the post-checkout entries that are
\* hidden or covered by the allowlist, each as checkout left it; every other
\* entry, file or directory, is gone.
C2_SurvivorsExact ==
    (pc = "returned" /\ err = Nil /\ PruneStarted /\ sparseKind = "file")
        => /\ DOMAIN wt = {n \in DOMAIN wtPost : Hidden(n) \/ Covered(n, sparses)}
           /\ \A n \in DOMAIN wt : wt[n] = wtPost[n]
\* a directory was removed while a covered entry and a hidden one stayed
C2_Witness ==
    /\ pc = "returned" /\ err = Nil /\ PruneStarted /\ sparseKind = "file"
    /\ \E n \in DOMAIN wtPost \ DOMAIN wt : wtPost[n].kind = "dir"
    /\ \E n \in DOMAIN wt : ~Hidden(n) /\ n \notin {sparses[k] : k \in 1..Len(sparses)}
    /\ <<".", "h">> \in DOMAIN wt

\* C3 as stated: contains reports i covered iff i is an entry of se, or i is
\* an entry of se with one separator appended to that entry.
C3_AsStated ==
    pc = "contains returned" =>
        (retContains <=>
            \E k \in 1..Len(argSe) :
                argI = argSe[k] \/ argI = argSe[k] \o <<PathSeparator>>)
\* C3 amended: contains reports i covered iff some entry of se is i, or is i
\* with one separator appended to i; no prefix, nested path or substring of
\* an entry covers.
C3_ContainsIff ==
    pc = "contains returned" => (retContains <=> Covered(argI, argSe))
\* covered through the separator form alone, by the second entry
C3_Witness ==
    /\ pc = "contains returned"
    /\ retContains
    /\ Len(argSe) = 2
    /\ argSe[1] # argI /\ argSe[2] # argI
    /\ argSe[2] = argI \o <<PathSeparator>>

\* C4: once the prune phase has started, every hidden entry checkout left is
\* still there and unchanged, whatever the allowlist and whether the prune
\* runs to its end or stops on a failed removal.
C4_HiddenKept ==
    PruneStarted =>
        \A n \in DOMAIN wtPost :
            Hidden(n) => n \in DOMAIN wt /\ wt[n] = wtPost[n]
\* the prune stopped on a failed removal after removing an entry, under the
\* allowlist of an empty file, with .git and another hidden entry in place
C4_Witness ==
    /\ pc = "returned" /\ err = ErrRemove
    /\ sparses = <<<<>>>>
    /\ DOMAIN wt # DOMAIN wtPost
    /\ {DotGit, <<".", "h">>} \subseteq DOMAIN wt

\* C5: when checkout succeeded and the root has no ".git" entry, CheckoutTag
\* returns "ERRNF" and the working directory is as the prune phase found it.
C5_NoGitDir ==
    (PruneStarted /\ DotGit \notin DOMAIN wtPost)
        => pc = "returned" /\ err = ErrNotFound /\ wt = wtPost
C5_Witness ==
    /\ PruneStarted /\ DotGit \notin DOMAIN wtPost
    /\ err = ErrNotFound
    /\ \E n \in DOMAIN wt : ~Hidden(n)

\* C6: when checkout succeeded and ".git" is a directory without "info", or
\* "info" is a directory without "sparse-checkout", CheckoutTag returns nil
\* and the working directory is as the prune phase found it.
C6_NoSparseSpec ==
    (/\ PruneStarted
     /\ DotGit \in DOMAIN wtPost /\ wtPost[DotGit].kind = "dir"
     /\ infoKind = "absent" \/ (infoKind = "dir" /\ sparseKind = "absent"))
        => /\ wt = wtPost
           /\ pc \in {"FindInfo", "FindSparse", "returned"}
           /\ pc = "returned" => err = Nil
C6_Witness ==
    /\ pc = "returned" /\ err = Nil /\ PruneStarted
    /\ infoKind = "dir" /\ sparseKind = "absent"
    /\ \E n \in DOMAIN wt : ~Hidden(n)

\* C7: when the fetch fails, CheckoutTag has returned the fetch's error and
\* nothing after the fetch was invoked: no GetTag, no CheckoutTree, no prune.
C7_FetchFailure ==
    (Len(results) >= 2 /\ results[2] # Nil)
        => /\ pc = "returned"
           /\ err = results[2]
           /\ calls = <<"RemotesLookup", "Fetch">>
           /\ scanPos = 0 /\ wt = wt0 /\ head = head0
C7_Witness ==
    /\ pc = "returned"
    /\ err = "fetch: authentication failed"
    /\ Len(odb) = MaxOdb

\* C8: when tag resolution runs on an object database with no tag object of
\* the requested name, CheckoutTag returns the tag-not-found error, and
\* CheckoutTree (hence SetHead) is not invoked, HEAD and the working
\* directory stay as they were at the call, and the prune does not run.
C8_TagNotFound ==
    (Len(calls) >= 3 /\ NoTagNamed(odb, tag))
        => /\ calls = <<"RemotesLookup", "Fetch", "GetTag">>
           /\ wt = wt0 /\ head = head0
           /\ GetTagOver => pc = "returned" /\ err = ErrTagNotFound
\* every object was scanned, one of them a tag whose name is close to the
\* requested one
C8_Witness ==
    /\ pc = "returned" /\ err = ErrTagNotFound
    /\ NoTagNamed(odb, tag)
    /\ scanPos = Len(odb)
    /\ \E k \in 1..Len(odb) : odb[k].kind = "tag"
    /\ DOMAIN wt # {}

\* C9 as stated: GetTag yields a tag only if its name equals the query, and
\* yields none exactly when no tag object of the database is named as the
\* query.
C9_AsStated ==
    GetTagOver =>
        /\ t # 0 => odb[t].kind = "tag" /\ odb[t].name = tag
        /\ t = 0 <=> NoTagNamed(odb, tag)
\* C9 amended: GetTag yields a tag only if its name equals the query, and
\* yields none exactly when no tag object named as the query is among the
\* objects the enumeration handed over before it ended.
C9_ExactMatch ==
    GetTagOver =>
        /\ t # 0 => odb[t].kind = "tag" /\ odb[t].name = tag
        /\ t = 0 <=> NoTagNamed(SubSeq(odb, 1, scanPos), tag)
\* a tag was resolved past a tag whose name is a proper prefix or suffix
C9_Witness ==
    /\ GetTagOver
    /\ t = 2
    /\ odb[1].kind = "tag" /\ odb[1].name # tag

\* C10: when the enumeration errors before any matching tag was found, that
\* error is what CheckoutTag returns.
C10_EnumErrorReturned ==
    (GetTagOver /\ forEachErr # Nil /\ t = 0)
        => pc = "returned" /\ err = forEachErr


\* C11: when a tag named as requested was enumerated and a later object of
\* the same enumeration errors, that tag is still the result: tag resolution
\* comes back without error and CheckoutTag goes on to check it out.
C11_MatchBeforeError ==
    (GetTagOver /\ forEachErr # Nil /\ t # 0)
        => /\ odb[t].kind = "tag" /\ odb[t].name = tag
           /\ t < scanPos
           /\ results[3] = Nil
           /\ pc = "AsCommit" \/ Len(calls) >= 4
C11_Witness ==
    /\ Len(calls) >= 4
    /\ forEachErr = ErrLookup
    /\ t = 1 /\ scanPos = 2


\* C12: whenever CheckoutTag has returned, on any path, every handle acquired
\* during the call (remote, object database, each object and tag of the scan,
\* commit, tree) has been released exactly once.
C12_AllReleasedOnce ==
    pc = "returned" => \A h \in DOMAIN frees : frees[h] = 1


\* C13: an I/O failure during the prune (a listing, the read of the
\* sparse-checkout file, a deletion) is what CheckoutTag returns, at once:
\* what was deleted before stays deleted, the entry the deletion failed on and
\* every entry after it in the listing are still there, the latter untouched,
\* and a failed listing or read has deleted nothing.
PruneIOErrors == {ErrNotDir, ErrIsDir, ErrRemove}
\* L lists the names of S, each once, in name order
InNameOrder(L, S) ==
    /\ Len(L) = Cardinality(S)
    /\ \A k \in 1..Len(L) : L[k] \in S
    /\ \A k \in 1..(Len(L) - 1) : NameLess(L[k], L[k + 1])
FailedBeforePrune == pc = "returned" /\ err # Nil /\ ~PruneStarted
FromTag(w, n) ==
    /\ n \in DOMAIN TreeOf(tag) /\ n \in DOMAIN w
    /\ w[n] = [kind |-> TreeOf(tag)[n], ver |-> "tag"]
\* n is as it was when CheckoutTag was called
AsBefore(w, n) == n \in DOMAIN wt0 /\ n \in DOMAIN w /\ w[n] = wt0[n]
C15_HeadState ==
    /\ head \in {head0, <<RefsTags, tag>>}
    /\ (Len(results) >= 4 /\ results[4] # Nil)
           => /\ pc = "returned" /\ err = results[4]
              /\ ~PruneStarted
              /\ head = head0
    /\ (pc = "returned" /\ err = Nil) => head = <<RefsTags, tag>>
C15_HeadAfterTree ==
    /\ [](C15_HeadState)
    /\ [][head' # head =>
            /\ head' = <<RefsTags, tag>>
            /\ \A n \in DOMAIN TreeOf(tag) : FromTag(wt, n)
            /\ wt' = wt]_vars
C15_Witness ==
    /\ pc = "returned" /\ err = Nil /\ PruneStarted
    /\ tag = <<"v", "1">>
    /\ head = <<RefsTags, <<"v", "1">>>> /\ head # head0
    /\ FromTag(wtPost, <<"a">>)


\* C16: the prune is idempotent. Run again with the same allowlist on the
\* directory a completed prune left, it deletes nothing at any step and ends
\* without error, so the survivors of two runs are those of one.
C16_PruneIdempotent ==
    runs = 2 =>
        /\ wt = wtFirst
        /\ pc \in {"ReadDir", "Prune", "returned"}
        /\ pc = "returned" => err = Nil /\ idx = Len(dirContents)
        /\ \A n \in DOMAIN wt : Hidden(n) \/ Covered(n, sparses)
\* a second run is over, on a directory from which the first run deleted "a"
\* and "b" and kept "aa"
C16_Witness ==
    /\ runs = 2 /\ pc = "returned"
    /\ <<"a">> \in DOMAIN wtPost /\ <<"a">> \notin DOMAIN wtFirst
    /\ <<"b">> \in DOMAIN wtPost /\ <<"b">> \notin DOMAIN wtFirst
    /\ <<"a", "a">> \in DOMAIN wt


\* the allowlist without its empty-string entries
WithoutEmpty(L) == SelectSeq(L, LAMBDA e : e # <<>>)
PrunedOk == pc = "returned" /\ err = Nil /\ PruneStarted /\ PruneRan
\* C17: the empty-string entries that splitting the file on newline produces
\* cover nothing: the survivors of a prune are those of the allowlist without
\* its empty entries. A present but empty sparse-checkout file, which splits
\* to exactly [""], therefore removes every non-hidden top-level entry, while
\* an absent file removes none.
C17_EmptyEntryCoversNothing ==
    /\ Split(<<>>) = <<<<>>>>
    /\ PrunedOk =>
        /\ DOMAIN wt =
             {n \in DOMAIN wtPost : Hidden(n) \/ Covered(n, WithoutEmpty(sparses))}
        /\ sparses = <<<<>>>> => DOMAIN wt = {n \in DOMAIN wtPost : Hidden(n)}
    /\ (pc = "returned" /\ err = Nil /\ PruneStarted /\ sparseKind = "absent")
           => wt = wtPost
\* the file was empty: "a" and "b" are gone, ".h" is still there
C17_Witness ==
    /\ PrunedOk
    /\ sparses = <<<<>>>>
    /\ {<<"a">>, <<"b">>, <<".", "h">>} \subseteq DOMAIN wtPost
    /\ DOMAIN wt = {DotGit, <<".", "h">>}


\* a directory the search for the metadata lists is not one: ".git" is a file,
\* or ".git/info" is a file
ListingFails ==
    /\ DotGit \in DOMAIN wtPost
    /\ \/ wtPost[DotGit].kind = "file"
       \/ wtPost[DotGit].kind = "dir" /\ infoKind = "file"
C19_RepositoryState ==
    /\ repository.frees <= 1
    /\ ~repository.opened => repository.frees = 0
    /\ mainPc \in {"OpenRepository", "CheckoutTag"} => repository.frees = 0
    /\ mainPc = "CheckoutTag" => repository.opened
    /\ (mainPc = "exited" \/ (mainPc = "panicked" /\ repository.opened))
           => repository.frees = 1 /\ pc = "returned"
C19_RepositoryOwned ==
    /\ [](C19_RepositoryState)
    /\ [][pc' # pc => (/\ repository.opened /\ repository.frees = 0
                       /\ repository' = repository)]_vars
\* CheckoutTag failed at the head update and the handle has been released once
C19_Witness ==
    /\ mainPc = "panicked" /\ repository.opened
    /\ pc = "returned" /\ err = ErrSetHead
    /\ repository.frees = 1

\* C20: main ends normally only if OpenRepository and CheckoutTag both
\* returned nil; when either returns an error, main panics with it and does
\* nothing else.
C20_MainState ==
    /\ mainPc = "exited" => (repository.opened /\ pc = "returned" /\ err = Nil)
    /\ mainPc = "panicked" =>
           \/ ~repository.opened /\ pc = "RemotesLookup" /\ calls = <<>>
           \/ repository.opened /\ pc = "returned" /\ err # Nil
    /\ ~repository.opened => mainPc \in {"OpenRepository", "panicked"}
C20_MainAborts ==
    /\ [](C20_MainState)
    /\ [][(mainPc = "CheckoutTag" /\ pc = "returned" /\ err # Nil)
              => mainPc' = "panicked"]_vars
    /\ [][(mainPc = "CheckoutTag" /\ pc = "returned" /\ err = Nil)
              => mainPc' = "exited"]_vars
    /\ [][mainPc \notin {"exited", "panicked"}]_vars
\* main panicked on the error of a prune that had deleted "a"
C20_Witness ==
    /\ mainPc = "panicked"
    /\ pc = "returned" /\ err = ErrRemove
    /\ <<"a">> \in DOMAIN wtPost /\ <<"a">> \notin DOMAIN wt


\* the elements of a path: what stands between its separators
RECURSIVE PathElems(_, _)
PathElems(p, cur) ==
    IF p = <<>> THEN (IF cur = <<>> THEN <<>> ELSE <<cur>>)
    ELSE IF Head(p) = "/"
         THEN (IF cur = <<>> THEN <<>> ELSE <<cur>>) \o PathElems(Tail(p), <<>>)
         ELSE PathElems(Tail(p), Append(cur, Head(p)))
Absolute(p) == p # <<>> /\ Head(p) = "/"
\* p names the file called name in the directory dir; with dir unset that is
\* the bare name, a path relative to the current directory
FileInDir(p, dir, name) ==
    /\ PathElems(p, <<>>) = PathElems(dir, <<>>) \o <<name>>
    /\ Absolute(p) <=> Absolute(dir)
\* C21: the fetch callbacks do not look at their arguments. The certificate
\* check answers ErrOk for every certificate, validity flag and host. The
\* credentials callback answers ErrOk with a non-nil SSH-key credential of
\* user "git", the files id_rsa.pub and id_rsa of the credentials directory
\* and an empty passphrase, for every url, username and set of allowed types,
\* whatever is on disk where the credentials directory points.
C21_CallbacksIgnoreArgs ==
    /\ certRet.called => certRet.code = 0
    /\ credRet.called =>
        /\ credRet.code = 0
        /\ Len(credRet.cred) = 1
        /\ credRet.cred[1].username = "git"
        /\ FileInDir(credRet.cred[1].publickey, sshPath,
                     <<"i", "d", "_", "r", "s", "a", ".", "p", "u", "b">>)
        /\ FileInDir(credRet.cred[1].privatekey, sshPath, <<"i", "d", "_", "r", "s", "a">>)
        /\ credRet.cred[1].passphrase = <<>>
\* an invalid certificate was accepted, and credentials were given with the
\* directory unset, nothing on disk and no SSH key among the allowed types
C21_Witness ==
    /\ pc = "callbacks returned"
    /\ certRet.called /\ ~cbArgs.valid
    /\ credRet.called /\ "ssh key" \notin cbArgs.allowed
    /\ sshPath = <<>> /\ keysOnDisk = "no directory"
    /\ credRet.cred[1].publickey = <<"i", "d", "_", "r", "s", "a", ".", "p", "u", "b">>


\* no name twice in the listing
NoRepeats(L) == \A j, k \in 1..Len(L) : L[j] = L[k] => j = k
C22_Outcome ==
    /\ scanPos <= Len(odb) /\ idx <= Len(dirContents)
    /\ NoRepeats(dirContents)
    /\ pc = "returned" =>
        \/ err # Nil
        \/ /\ err = Nil /\ calls = StepOrder
           /\ PruneRan \/ (wt = wtPost /\ dirContents = <<>>)
\* how far CheckoutTag has come: the statement it is at, then the objects
\* scanned and the entries taken through the loop
StatementOrder ==
    <<"RemotesLookup", "Fetch", "GetTag", "ForEach", "AsCommit", "Tree",
      "RepoCheckoutTree", "SetHead", "FindGit", "FindInfo", "FindSparse",
      "ReadFile", "ReadDir", "Prune", "returned">>
At(p) == CHOOSE k \in 1..Len(StatementOrder) : StatementOrder[k] = p
\* at every statement before the return, the step of that statement can be
\* taken and changes the state
C22_CanStep ==
    /\ pc = "RemotesLookup" => ENABLED <<RemotesLookup>>_vars
    /\ pc = "Fetch" => ENABLED <<Fetch>>_vars
    /\ pc = "GetTag" => ENABLED <<GetTagOdb>>_vars
    /\ pc = "ForEach" => ENABLED <<ForEach \/ GetTagReturn>>_vars
    /\ pc = "AsCommit" => ENABLED <<AsCommit>>_vars
    /\ pc = "Tree" => ENABLED <<Tree>>_vars
    /\ pc = "RepoCheckoutTree" => ENABLED <<RepoCheckoutTree>>_vars
    /\ pc = "SetHead" => ENABLED <<SetHead>>_vars
    /\ pc = "FindGit" => ENABLED <<FindGit>>_vars
    /\ pc = "FindInfo" => ENABLED <<FindInfo>>_vars
    /\ pc = "FindSparse" => ENABLED <<FindSparse>>_vars
    /\ pc = "ReadFile" => ENABLED <<ReadFile>>_vars
    /\ pc = "ReadDir" => ENABLED <<ReadDir>>_vars
    /\ pc = "Prune" => ENABLED <<PruneEntry \/ PruneDone>>_vars
    /\ pc \in {StatementOrder[k] : k \in 1..Len(StatementOrder)}
\* C22: when every call CheckoutTag makes returns, CheckoutTag returns: as
\* long as it has not returned a step that changes the state can be taken,
\* and every step moves it to a later statement or one object or one entry
\* forward, of which there are finitely many. It returns nil after the prune
\* ran or was skipped, or an error, and takes no step after it returned. The
\* scan goes through the object database one object forward at a time and
\* the prune loop through one listing, taken once, one entry forward at a
\* time, so no object and no entry is handled twice.
C22_Terminates ==
    /\ [](C22_Outcome)
    /\ [](C22_CanStep)
    /\ [][/\ pc # "returned"
          /\ IF pc' = pc THEN scanPos' + idx' = scanPos + idx + 1
                         ELSE At(pc') > At(pc)
          /\ scanPos' # scanPos => (pc = "ForEach" /\ scanPos' = scanPos + 1)
          /\ idx' # idx => (pc = "Prune" /\ idx' = idx + 1)
          /\ dirContents' # dirContents => (pc = "ReadDir" /\ dirContents = <<>>)]_vars
\* a run that scanned two objects and took five entries through the loop
C22_Witness ==
    /\ pc = "returned" /\ err = Nil
    /\ scanPos = 2 /\ Len(odb) = 2
    /\ Len(dirContents) = 5 /\ idx = 5
    /\ DOMAIN wt # DOMAIN wtPost

====
